---- MODULE Spec2Model ----
(***************************************************************************)
(* Belgian train schedules: the ingest-and-normalize pipeline.             *)
(*                                                                         *)
(*   IRailClient      -- fetches one liveboard per (station, direction)    *)
(*                       and normalizes its entries;                       *)
(*   DatabaseClient   -- the write path to the train_schedules table;      *)
(*   update_schedules_logic -- the aggregation run;                        *)
(*   update_schedules / update_schedules_timer -- the trigger adapters.    *)
(*                                                                         *)
(* Strings the code parses (numerals, comma lists, dotted vehicle ids) are *)
(* sequences of one-character strings; enumerations are TLA+ strings.      *)
(* An optional value (Python None) is <<>> and a present value v is <<v>>. *)
(***************************************************************************)
EXTENDS Integers, Sequences, FiniteSets, TLC

(***************************************************************************)
(* Bounds of the model.                                                    *)
(***************************************************************************)
\* Aggregation runs triggered in one behaviour.
NumRuns == 2
\* Longest upstream entry array given to the normalizer on its own.
MaxEntries == 2

(***************************************************************************)
(* Strings and numerals.                                                   *)
(***************************************************************************)
DigitChars == <<"0", "1", "2", "3", "4", "5", "6", "7", "8", "9">>

IsDigit(c) == \E i \in 1..10 : DigitChars[i] = c

DigitVal(c) == (CHOOSE i \in 1..10 : DigitChars[i] = c) - 1

\* int(s) accepts an optional sign followed by one or more digits.
IsIntLiteral(s) ==
    LET body == IF Len(s) > 0 /\ s[1] = "-" THEN Tail(s) ELSE s
    IN  /\ Len(body) > 0
        /\ \A i \in 1..Len(body) : IsDigit(body[i])

RECURSIVE DigitsVal(_)
DigitsVal(s) ==
    IF Len(s) = 0 THEN 0
    ELSE 10 * DigitsVal(SubSeq(s, 1, Len(s) - 1)) + DigitVal(s[Len(s)])

IntOf(s) == IF s[1] = "-" THEN 0 - DigitsVal(Tail(s)) ELSE DigitsVal(s)

\* str.split(sep): always at least one piece, "" gives [""].
RECURSIVE Split(_, _)
Split(s, sep) ==
    IF \A i \in 1..Len(s) : s[i] # sep THEN <<s>>
    ELSE LET i == CHOOSE k \in 1..Len(s) :
                      /\ s[k] = sep
                      /\ \A j \in 1..(k - 1) : s[j] # sep
         IN  <<SubSeq(s, 1, i - 1)>> \o Split(SubSeq(s, i + 1, Len(s)), sep)

Last(q) == q[Len(q)]

\* dict.get(key, default)
Get(m, k, default) == IF k \in DOMAIN m THEN m[k] ELSE default

(***************************************************************************)
(* JSON values as decoded by response.json().                              *)
(***************************************************************************)
JNull == [t |-> "null"]
JNum(n) == [t |-> "num", n |-> n]
JStr(s) == [t |-> "str", s |-> s]
JArr(a) == [t |-> "arr", a |-> a]
JMap(m) == [t |-> "map", m |-> m]

EmptyMap == <<>>

\* Python truthiness of a decoded value.
Falsy(v) ==
    CASE v.t = "null" -> TRUE
      [] v.t = "num"  -> v.n = 0
      [] v.t = "str"  -> Len(v.s) = 0
      [] v.t = "arr"  -> Len(v.a) = 0
      [] v.t = "map"  -> DOMAIN v.m = {}

(***************************************************************************)
(* IRailClient: normalization of one liveboard.                            *)
(***************************************************************************)
\* _parse_timestamp: epoch seconds of the instant, or None.
ParseTimestamp(timestamp_str) ==
    IF IsIntLiteral(timestamp_str) THEN <<IntOf(timestamp_str)>> ELSE <<>>

DelayMinutes(delay) == IF delay > 0 THEN delay \div 60 ELSE 0

CurrentStatus(canceled, delay) ==
    IF canceled = 1 THEN "Canceled"
    ELSE IF delay > 0 THEN "Delayed" ELSE "On Time"

ActualTime(scheduled_time, delay) ==
    IF scheduled_time # <<>> /\ delay > 0
    THEN <<scheduled_time[1] + delay>>
    ELSE scheduled_time

Skip(exc) == [ok |-> FALSE, exc |-> exc]

\* The body of the per-entry try block: a record, or the exception that
\* makes the entry be skipped.
ParseEntry(schedule, station, direction) ==
    IF schedule.t # "map" THEN Skip("AttributeError")
    ELSE
    LET e == schedule.m
        delay_str == Get(e, "delay", <<"0">>)
    IN
    IF ~IsIntLiteral(delay_str) THEN Skip("ValueError")
    ELSE IF "vehicle" \notin DOMAIN e THEN Skip("AttributeError")
    ELSE
    LET scheduled_time == ParseTimestamp(Get(e, "time", <<"0">>))
        delay == IntOf(delay_str)
        vehicle_id == e["vehicle"]
        vehicle_info == Get(e, "vehicleinfo", EmptyMap)
        vehicle_name == Get(vehicle_info, "shortname", Last(Split(vehicle_id, ".")))
        platform == Get(e, "platform", <<>>)
        other == Get(e, "station", <<>>)
        canceled == IF Get(e, "canceled", <<"0">>) = <<"1">> THEN 1 ELSE 0
    IN  [ok |-> TRUE,
         rec |-> [train_id |-> vehicle_id,
                  train_name |-> vehicle_name,
                  direction |-> direction,
                  departure_station |->
                      IF direction = "departure" THEN station ELSE other,
                  arrival_station |->
                      IF direction = "departure" THEN other ELSE station,
                  platform |-> IF platform = <<"?">> THEN <<>> ELSE platform,
                  scheduled_time |-> scheduled_time,
                  actual_time |-> ActualTime(scheduled_time, delay),
                  delay_minutes |-> DelayMinutes(delay),
                  canceled |-> canceled,
                  current_status |-> CurrentStatus(canceled, delay)]]

RECURSIVE ParseEntries(_, _, _)
ParseEntries(schedules, station, direction) ==
    IF Len(schedules) = 0 THEN <<>>
    ELSE LET r == ParseEntry(Head(schedules), station, direction)
         IN  (IF r.ok THEN <<r.rec>> ELSE <<>>)
                 \o ParseEntries(Tail(schedules), station, direction)

Plural(direction) == IF direction = "arrival" THEN "arrivals" ELSE "departures"

Returned(val) == [tag |-> "ok", val |-> val]
Raised(exc) == [tag |-> "raise", exc |-> exc]
FailureMarker == [tag |-> "none"]

\* What `for schedule in schedules` iterates over: the elements of an array,
\* the characters of a string, the keys of a map.
Elements(v) ==
    CASE v.t = "arr" -> v.a
      [] v.t = "str" -> [i \in 1..Len(v.s) |-> JStr(<<v.s[i]>>)]
      [] v.t = "map" -> [i \in 1..Cardinality(DOMAIN v.m) |-> JStr(<<"k">>)]

\* __parse_liveboard_data
ParseLiveboardData(liveboard_data, station, direction) ==
    IF Falsy(liveboard_data) THEN Returned(<<>>)
    ELSE IF liveboard_data.t # "map" THEN Raised("AttributeError")
    ELSE
    LET outer == Get(liveboard_data.m, Plural(direction), JMap(EmptyMap))
    IN
    IF outer.t # "map" THEN Raised("AttributeError")
    ELSE
    LET schedules == Get(outer.m, direction, JArr(<<>>))
    IN
    IF schedules.t \in {"null", "num"} THEN Raised("TypeError")
    ELSE Returned(ParseEntries(Elements(schedules), station, direction))

\* get_schedules without its JSONDecodeError clause.
GetSchedulesJsonUncaught(response, station, direction) ==
    IF response.net = "invalid_json" THEN Raised("JSONDecodeError")
    ELSE IF response.net # "ok" THEN FailureMarker
    ELSE ParseLiveboardData(response.data, station, direction)

\* get_schedules: a response is [net, data]; net is "ok" when a 2xx response
\* with a JSON body was received.
GetSchedules(response, station, direction) ==
    IF response.net # "ok" THEN FailureMarker
    ELSE ParseLiveboardData(response.data, station, direction)

(***************************************************************************)
(* Upstream inputs.                                                        *)
(***************************************************************************)
Directions == <<"arrival", "departure">>

VehicleId == <<"B", "E", ".", "N", "M", "B", "S", ".", "I", "C", "1">>
OtherStation == <<"G", "e", "n", "t">>

\* A raw liveboard entry; an option <<>> leaves the key out.
MkEntry(time, delay, vehicle, canceled) ==
    JMap((IF time = <<>> THEN EmptyMap ELSE "time" :> time[1])
         @@ (IF delay = <<>> THEN EmptyMap ELSE "delay" :> delay[1])
         @@ (IF vehicle = <<>> THEN EmptyMap ELSE "vehicle" :> vehicle[1])
         @@ (IF canceled = <<>> THEN EmptyMap ELSE "canceled" :> canceled[1])
         @@ ("platform" :> <<"?">>)
         @@ ("station" :> OtherStation))

GoodEntry == MkEntry(<<<<"1", "0", "0">>>>, <<<<"1", "2", "0">>>>, <<VehicleId>>, <<<<"0">>>>)
BadDelayEntry == MkEntry(<<<<"1", "0", "0">>>>, <<<<"x">>>>, <<VehicleId>>, <<<<"0">>>>)
BadTimeEntry == MkEntry(<<<<"a", "b", "c">>>>, <<<<"0">>>>, <<VehicleId>>, <<<<"0">>>>)
NoVehicleEntry == MkEntry(<<<<"1", "0", "0">>>>, <<<<"0">>>>, <<>>, <<<<"0">>>>)

\* The decoded body whose path <direction>s.<direction> holds `v`.
Liveboard(direction, v) ==
    JMap(("version" :> JStr(<<"1">>))
         @@ (Plural(direction) :> JMap(("number" :> JNum(1)) @@ (direction :> v))))

NetFailures == {"timeout", "connection", "http_error", "invalid_json"}

Failed(net) == [net |-> net, data |-> JNull]
Received(data) == [net |-> "ok", data |-> data]

\* What the upstream may answer to one fetch of an aggregation run.
Upstream(direction) ==
    {Failed(n) : n \in NetFailures}
    \cup {Received(JMap("version" :> JStr(<<"1">>))),
          Received(JMap(("version" :> JStr(<<"1">>)) @@ (Plural(direction) :> JNull))),
          Received(Liveboard(direction, JArr(<<GoodEntry>>))),
          Received(Liveboard(direction, JArr(<<BadDelayEntry, GoodEntry>>))),
          Received(Liveboard(direction, JArr(<<NoVehicleEntry>>))),
          Received(Liveboard(direction, JArr(<<GoodEntry, BadTimeEntry>>)))}

(***************************************************************************)
(* State.                                                                  *)
(***************************************************************************)
VARIABLES
    table,       \* committed rows of train_schedules, as a reader sees them
    clock,       \* the wall clock read by datetime.now()
    run,         \* per run: the adapter's and update_schedules_logic's locals
    tx,          \* per run: the open transaction of its connection
    hist,        \* per run: what happened (pre-run table, fetches, calls)
    snapshot,    \* <<rows>> written by the insert transaction that committed last
    probe        \* a liveboard given to get_schedules on its own

vars == <<table, clock, run, tx, hist, snapshot, probe>>

Runs == 1..NumRuns

NoTx == [deleted |-> 0, rows |-> <<>>]

IdleRun ==
    [pc |-> "idle", trigger |-> "none", stations |-> <<>>, idx |-> 0,
     arrival_schedules_counts |-> <<>>, departure_schedules_counts |-> <<>>,
     all_schedules |-> <<>>, exc |-> <<>>, status_code |-> 0,
     logged_error |-> FALSE, escaped |-> FALSE]

NoHist == [pre |-> <<>>, fetched |-> <<>>, calls |-> {}, no_station |-> FALSE]

NoProbe == [direction |-> "none"]

Init ==
    /\ table = <<>>
    /\ clock = 0
    /\ run = [r \in Runs |-> IdleRun]
    /\ tx = [r \in Runs |-> NoTx]
    /\ hist = [r \in Runs |-> NoHist]
    /\ snapshot = <<>>
    /\ probe = NoProbe

(***************************************************************************)
(* Trigger adapters: station resolution.                                   *)
(***************************************************************************)
DefaultStations ==
    <<"B", "r", "u", "s", "s", "e", "l", "s", "-", "C", "e", "n", "t", "r", "a", "l">>

\* os.environ.get("TRAIN_STATIONS", "Brussels-Central")
EnvStations(env) == IF env = <<>> THEN DefaultStations ELSE env[1]

\* The list the adapter hands to update_schedules_logic: the query parameter
\* when it is truthy (HTTP only), else the environment's, split at commas.
ResolveStations(trigger, param, env) ==
    LET raw == IF trigger = "http" /\ param # <<>> /\ param[1] # <<>>
               THEN param[1]
               ELSE EnvStations(env)
    IN  Split(raw, ",")

\* No station is resolvable: the query parameter is absent or empty (the
\* timer has none) and the configured default list is empty.
NoStationResolvable(trigger, param, env) ==
    /\ trigger = "http" => (param = <<>> \/ param[1] = <<>>)
    /\ env = <<<<>>>>

\* Values of the `stations` query parameter and of TRAIN_STATIONS.
Params == {<<>>, <<<<>>>>, <<<<"A", ",", "B">>>>}
Envs == {<<>>, <<<<>>>>}

(***************************************************************************)
(* DatabaseClient: the write path.  Each connection runs one transaction   *)
(* (autocommit off); leaving the `with` block on an exception discards it. *)
(* Statements of different connections interleave under the server's       *)
(* default READ COMMITTED isolation: a DELETE waits for rows that another  *)
(* open transaction has deleted or inserted, an INSERT waits for nothing.  *)
(***************************************************************************)
DbOutcomes == {"ok", "fault"}

\* The parameter tuple of INSERT_TRAIN_SCHEDULE_RECORD_SQL.
InsertParams(schedule) ==
    [train_id |-> Get(schedule, "train_id", <<>>),
     train_name |-> Get(schedule, "train_name", <<>>),
     direction |-> Get(schedule, "direction", ""),
     departure_station |-> Get(schedule, "departure_station", <<>>),
     arrival_station |-> Get(schedule, "arrival_station", <<>>),
     platform |-> Get(schedule, "platform", <<>>),
     scheduled_time |-> Get(schedule, "scheduled_time", <<>>),
     actual_time |-> Get(schedule, "actual_time", <<>>),
     delay_minutes |-> Get(schedule, "delay_minutes", 0),
     canceled |-> Get(schedule, "canceled", 0),
     current_status |-> Get(schedule, "current_status", ""),
     last_updated |-> Get(schedule, "last_updated", <<>>)]

\* scheduled_time DATETIME NOT NULL, actual_time DATETIME NOT NULL.
SatisfiesSchema(row) ==
    /\ row.scheduled_time # <<>>
    /\ row.actual_time # <<>>

Rows(schedules) == [i \in 1..Len(schedules) |-> InsertParams(schedules[i])]

\* No other connection holds a lock the DELETE's scan would wait for.
DeleteProceeds(r) ==
    \A q \in Runs \ {r} : tx[q].deleted = 0 /\ tx[q].rows = <<>>

\* A commit issued before the last INSERT was executed.
CommittedBeforeLastInsert(t) ==
    SubSeq(table, t.deleted + 1, Len(table)) \o SubSeq(t.rows, 1, Len(t.rows) - 1)

\* The committed table once a transaction's changes are applied to it.
Committed(t) ==
    SubSeq(table, t.deleted + 1, Len(table)) \o t.rows

(***************************************************************************)
(* update_schedules_logic.                                                 *)
(***************************************************************************)
\* schedule["last_updated"] = current_timestamp
Stamp(schedule, current_timestamp) ==
    [k \in DOMAIN schedule \cup {"last_updated"} |->
        IF k = "last_updated" THEN <<current_timestamp>> ELSE schedule[k]]

\* The persistence step entered without the emptiness test.
ShouldPersistAlways(all_schedules) == TRUE

\* `if all_schedules:`
ShouldPersist(all_schedules) == all_schedules # <<>>

\* `if schedules:` -- neither the failure marker nor an empty list.
Truthy(result) == result.tag = "ok" /\ result.val # <<>>

\* An exception leaves update_schedules_logic: its locals are gone, the
\* adapter's `except` clause is next.
Raise(r, exc) ==
    [run EXCEPT ![r] = [IdleRun EXCEPT !.pc = "raised",
                                       !.trigger = run[r].trigger,
                                       !.exc = <<exc>>]]

\* The adapter returned: nothing of the run is left but its outcome.
Finish(r, status_code, logged_error, escaped) ==
    [run EXCEPT ![r] = [IdleRun EXCEPT !.pc = "finished",
                                       !.trigger = run[r].trigger,
                                       !.status_code = status_code,
                                       !.logged_error = logged_error,
                                       !.escaped = escaped]]

\* The adapter is invoked: it resolves the stations and enters the core,
\* which builds its clients and its empty accumulators.
Trigger(r, params, envs) ==
    /\ run[r].pc = "idle"
    /\ \E trigger \in {"http", "timer"}, param \in params, env \in envs :
          LET stations == ResolveStations(trigger, param, env)
          IN  /\ hist' = [hist EXCEPT
                            ![r].pre = table,
                            ![r].no_station = NoStationResolvable(trigger, param, env)]
              /\ run' = [run EXCEPT ![r] =
                    IF Len(stations) = 0
                    THEN [@ EXCEPT !.pc = "finished", !.trigger = trigger,
                                   !.logged_error = trigger = "timer",
                                   !.status_code = IF trigger = "http" THEN 400 ELSE 0]
                    ELSE [@ EXCEPT !.pc = "schema", !.trigger = trigger,
                                   !.stations = stations,
                                   !.arrival_schedules_counts =
                                       [i \in 1..Len(stations) |-> 0],
                                   !.departure_schedules_counts =
                                       [i \in 1..Len(stations) |-> 0]]]
    /\ UNCHANGED <<table, clock, tx, snapshot, probe>>

\* Runs follow one another: the table has one writer at a time.
TriggerRun(r) ==
    /\ \A q \in Runs : q < r => run[q].pc = "finished"
    /\ Trigger(r, Params, Envs)

\* Runs overlap (a manual trigger races the timer); each is given the
\* default station list.
TriggerOverlapping(r) ==
    /\ \A q \in Runs : q < r => run[q].pc # "idle"
    /\ Trigger(r, {<<>>}, {<<>>})

\* create_tables_if_not_exist
EnsureSchema(r) ==
    /\ run[r].pc = "schema"
    /\ \E outcome \in DbOutcomes :
          run' = IF outcome = "ok"
                 THEN [run EXCEPT ![r].pc = "fetch"]
                 ELSE Raise(r, "OperationalError")
    /\ UNCHANGED <<table, clock, tx, hist, snapshot, probe>>

\* One iteration of the station x direction loop; after the last one the
\* run goes on to persistence or straight to its return.
Fetch(r) ==
    /\ run[r].pc = "fetch"
    /\ LET k == run[r].idx
           i == (k \div 2) + 1
           station == run[r].stations[i]
           direction == Directions[(k % 2) + 1]
       IN  \E response \in Upstream(direction) :
             LET schedules == GetSchedules(response, station, direction)
                 all == IF Truthy(schedules)
                        THEN run[r].all_schedules \o schedules.val
                        ELSE run[r].all_schedules
                 last == k + 1 = 2 * Len(run[r].stations)
             IN  /\ hist' = [hist EXCEPT ![r].fetched =
                        Append(@, [failed |-> response.net # "ok", result |-> schedules])]
                 /\ run' =
                      IF schedules.tag = "raise" THEN Raise(r, schedules.exc)
                      ELSE [run EXCEPT
                              ![r].idx = k + 1,
                              ![r].all_schedules = all,
                              ![r].arrival_schedules_counts =
                                  IF Truthy(schedules) /\ direction = "arrival"
                                  THEN [@ EXCEPT ![i] = Len(schedules.val)] ELSE @,
                              ![r].departure_schedules_counts =
                                  IF Truthy(schedules) /\ direction # "arrival"
                                  THEN [@ EXCEPT ![i] = Len(schedules.val)] ELSE @,
                              ![r].pc = IF ~last THEN "fetch"
                                        ELSE IF ShouldPersist(all) THEN "clear"
                                        ELSE "respond"]
    /\ UNCHANGED <<table, clock, tx, snapshot, probe>>

\* What is remembered of a run once a gateway call `op` was made, and once
\* it raised.
Called(r, op, raised) ==
    [hist EXCEPT ![r].calls = @ \cup {op},
                 ![r].fetched = IF raised THEN <<>> ELSE @]

\* clear_old_data, a transaction of its own, and then the stamping of the
\* records with one reading of the clock.
ClearOldData(r) ==
    /\ run[r].pc = "clear"
    /\ \E outcome \in DbOutcomes :
          IF outcome = "ok"
          THEN /\ DeleteProceeds(r)
               /\ table' = <<>>
               /\ clock' = clock + 1
               /\ run' = [run EXCEPT
                            ![r].pc = "insert",
                            ![r].all_schedules =
                                [j \in 1..Len(@) |-> Stamp(@[j], clock + 1)]]
               /\ hist' = Called(r, "clear", FALSE)
          ELSE /\ run' = Raise(r, "OperationalError")
               /\ hist' = Called(r, "clear", TRUE)
               /\ UNCHANGED <<table, clock>>
    /\ UNCHANGED <<tx, snapshot, probe>>

\* insert_schedules: the connection and the DELETE of clear_old_data=True.
InsertDelete(r) ==
    /\ run[r].pc = "insert"
    /\ \E outcome \in DbOutcomes :
          IF outcome = "ok"
          THEN /\ DeleteProceeds(r)
               /\ tx' = [tx EXCEPT ![r] = [deleted |-> Len(table), rows |-> <<>>]]
               /\ run' = [run EXCEPT ![r].pc = "insert_rows"]
               /\ hist' = Called(r, "insert", FALSE)
          ELSE /\ run' = Raise(r, "OperationalError")
               /\ hist' = Called(r, "insert", TRUE)
               /\ UNCHANGED tx
    /\ UNCHANGED <<table, clock, snapshot, probe>>

\* insert_schedules: the INSERT of the next schedule.
InsertRow(r) ==
    /\ run[r].pc = "insert_rows"
    /\ Len(tx[r].rows) < Len(run[r].all_schedules)
    /\ LET row == InsertParams(run[r].all_schedules[Len(tx[r].rows) + 1])
       IN  \E outcome \in DbOutcomes :
             IF outcome = "fault"
             THEN /\ run' = Raise(r, "OperationalError")
                  /\ hist' = Called(r, "insert", TRUE)
                  /\ tx' = [tx EXCEPT ![r] = NoTx]
             ELSE IF ~SatisfiesSchema(row)
             THEN /\ run' = Raise(r, "IntegrityError")
                  /\ hist' = Called(r, "insert", TRUE)
                  /\ tx' = [tx EXCEPT ![r] = NoTx]
             ELSE /\ tx' = [tx EXCEPT ![r].rows = Append(@, row)]
                  /\ UNCHANGED <<run, hist>>
    /\ UNCHANGED <<table, clock, snapshot, probe>>

\* insert_schedules: conn.commit() and the return to the core's caller.
InsertCommit(r) ==
    /\ run[r].pc = "insert_rows"
    /\ Len(tx[r].rows) = Len(run[r].all_schedules)
    /\ \E outcome \in DbOutcomes :
          IF outcome = "ok"
          THEN /\ table' = Committed(tx[r])
               /\ snapshot' = <<tx[r].rows>>
               /\ run' = [run EXCEPT ![r].pc = "respond"]
               /\ UNCHANGED hist
          ELSE /\ run' = Raise(r, "OperationalError")
               /\ hist' = Called(r, "insert", TRUE)
               /\ UNCHANGED <<table, snapshot>>
    /\ tx' = [tx EXCEPT ![r] = NoTx]
    /\ UNCHANGED <<clock, probe>>

(***************************************************************************)
(* Trigger adapters: the way out.                                          *)
(***************************************************************************)
ExceptionKinds ==
    {"OperationalError", "IntegrityError", "AttributeError", "TypeError",
     "ValueError", "RequestException", "JSONDecodeError"}

\* An `except` clause that names the database errors only.
AdapterCatchesDbOnly(exc) == exc \in {"OperationalError", "IntegrityError"}

\* `except Exception`
AdapterCatches(exc) == exc \in ExceptionKinds

\* The core returned its summary: HTTP 200 with the summary, or the timer's
\* plain return.
Respond(r) ==
    /\ run[r].pc = "respond"
    /\ run' = Finish(r, IF run[r].trigger = "http" THEN 200 ELSE 0, FALSE, FALSE)
    /\ hist' = [hist EXCEPT ![r] = NoHist]
    /\ UNCHANGED <<table, clock, tx, snapshot, probe>>

\* An exception left the core.
Catch(r) ==
    /\ run[r].pc = "raised"
    /\ run' = IF AdapterCatches(run[r].exc[1])
              THEN Finish(r, IF run[r].trigger = "http" THEN 500 ELSE 0, TRUE, FALSE)
              ELSE Finish(r, 0, FALSE, TRUE)
    /\ hist' = [hist EXCEPT ![r] = NoHist]
    /\ UNCHANGED <<table, clock, tx, snapshot, probe>>

Step(r) ==
    \/ EnsureSchema(r)
    \/ Fetch(r)
    \/ ClearOldData(r)
    \/ InsertDelete(r)
    \/ InsertRow(r)
    \/ InsertCommit(r)
    \/ Respond(r)
    \/ Catch(r)

Next == \E r \in Runs : TriggerRun(r) \/ Step(r)

Spec == Init /\ [][Next]_vars

NextOverlap == \E r \in Runs : TriggerOverlapping(r) \/ Step(r)

SpecOverlap == Init /\ [][NextOverlap]_vars

(***************************************************************************)
(* get_schedules on its own: one response, drawn from every shape the      *)
(* decoded body can take, is fetched and normalized.                       *)
(***************************************************************************)
SeqsUpTo(S, n) == UNION {[1..k -> S] : k \in 0..n}

ValidTime == <<"1", "7", "0", "0">>

ProbeEntries ==
    {MkEntry(time, delay, vehicle, canceled) :
        time \in {<<ValidTime>>, <<<<"a", "b", "c">>>>},
        delay \in {<<>>, <<<<"0">>>>, <<<<"5", "9">>>>, <<<<"1", "2", "0">>>>, <<<<"x">>>>},
        vehicle \in {<<>>, <<VehicleId>>},
        canceled \in {<<<<"0">>>>, <<<<"1">>>>}}

\* Decoded bodies whose path <direction>s.<direction> is absent or malformed
\* at the first or at the second level, and bodies that are no map at all.
ProbeShapes(direction) ==
    LET top(v) == JMap(("version" :> JStr(<<"1">>)) @@ (Plural(direction) :> v))
    IN  {JNull, JMap(EmptyMap), JArr(<<JNull>>),
         JMap("version" :> JStr(<<"1">>)),
         top(JNull), top(JArr(<<JNull>>)), top(JStr(<<"a">>)), top(JNum(1)),
         top(JMap(EmptyMap)), top(JMap("number" :> JNum(1))),
         Liveboard(direction, JNull), Liveboard(direction, JNum(1)),
         Liveboard(direction, JStr(<<"a", "b">>)),
         Liveboard(direction, JMap("0" :> GoodEntry)),
         Liveboard(direction, JArr(<<JNull, GoodEntry>>))}

ProbeResponses(direction) ==
    {Failed(n) : n \in NetFailures}
    \cup {Received(d) : d \in ProbeShapes(direction)}
    \cup {Received(Liveboard(direction, JArr(a))) : a \in SeqsUpTo(ProbeEntries, MaxEntries)}

InitProbe ==
    /\ table = <<>>
    /\ clock = 0
    /\ run = [r \in Runs |-> IdleRun]
    /\ tx = [r \in Runs |-> NoTx]
    /\ hist = [r \in Runs |-> NoHist]
    /\ snapshot = <<>>
    /\ \E direction \in {"arrival", "departure"} :
         \E response \in ProbeResponses(direction) :
            probe = [direction |-> direction, station |-> <<"A">>,
                     response |-> response, result |-> <<>>]

ProbeGetSchedules ==
    /\ probe.direction # "none"
    /\ probe.result = <<>>
    /\ probe' = [probe EXCEPT !.result =
                    <<GetSchedules(probe.response, probe.station, probe.direction)>>]
    /\ UNCHANGED <<table, clock, run, tx, hist, snapshot>>

NextProbe == ProbeGetSchedules

SpecProbe == InitProbe /\ [][NextProbe]_vars

(***************************************************************************)
(* Properties.                                                             *)
(***************************************************************************)
\* The core of run r has returned its summary (the adapter has yet to answer).
CoreReturned(r) == run[r].pc = "respond"

\* C1: from the first persisted run onward the committed table equals the
\* complete record set of one aggregation run -- never an emptied or partly
\* inserted table, never rows of two runs.  With one writer at a time the
\* only candidate is the set written by the last committed insert.
C1_TableIsOneRunsSnapshot ==
    snapshot # <<>> => table = snapshot[1]

\* C2: when the persistence step of a run fails (connection, DELETE, INSERT
\* or commit), the error reaches the caller and the committed table is what
\* it was before the run started.
C2_FailedPersistenceKeepsSnapshot ==
    \A r \in Runs :
        (run[r].pc = "raised" /\ hist[r].calls # {}) => table = hist[r].pre

\* Every row of the table carries the timestamp run r stamped its records with.
RowsAreOf(r) ==
    \A i \in 1..Len(table) :
        table[i].last_updated = run[r].all_schedules[1]["last_updated"]

\* C3 as stated: after any run that completes without error the number of
\* stored rows equals the number of records of its combined list, with no
\* row of an earlier run left.
C3_RowCountAfterAnyRun ==
    \A r \in Runs :
        CoreReturned(r) => Len(table) = Len(run[r].all_schedules)

\* C3, amended: after a run that completes without error and whose combined
\* list is not empty, the stored rows are as many as the records of that
\* list and all of them are that run's.
C3_RowCountAfterPersistingRun ==
    \A r \in Runs :
        (CoreReturned(r) /\ run[r].all_schedules # <<>>) =>
            /\ Len(table) = Len(run[r].all_schedules)
            /\ RowsAreOf(r)

\* A run replaced a non-empty earlier snapshot by its own records.
C3_Witness ==
    \E r \in Runs :
        /\ CoreReturned(r)
        /\ Len(run[r].all_schedules) = 2
        /\ hist[r].pre # <<>>
        /\ Len(table) = 2

\* The count the summary reports for the i-th fetched pair of run r.
CountOfPair(r, i) ==
    IF i % 2 = 1
    THEN run[r].arrival_schedules_counts[((i - 1) \div 2) + 1]
    ELSE run[r].departure_schedules_counts[((i - 1) \div 2) + 1]

RECURSIVE RecordsOf(_)
RecordsOf(fetched) ==
    IF fetched = <<>> THEN <<>>
    ELSE (IF Head(fetched).failed THEN <<>> ELSE Head(fetched).result.val)
             \o RecordsOf(Tail(fetched))

Unstamped(schedules) ==
    [i \in 1..Len(schedules) |->
        [k \in DOMAIN schedules[i] \ {"last_updated"} |-> schedules[i][k]]]

InCore(r) == run[r].pc \in {"fetch", "clear", "insert", "insert_rows", "respond"}

\* C4: whichever (station, direction) fetches fail, the failing fetch hands
\* back the failure marker and the run goes on; each failing pair counts 0,
\* every other pair its own number of records, the combined list holds
\* exactly the records of the pairs that succeeded, and those are the rows
\* stored when the run returns.
C4_PartialFailureTolerated ==
    \A r \in Runs :
        LET f == hist[r].fetched
        IN  /\ \A i \in 1..Len(f) : f[i].failed => f[i].result = FailureMarker
            /\ (run[r].pc = "raised" /\ f # <<>>) => Last(f).result.tag = "raise"
            /\ InCore(r) =>
                  /\ Len(f) = run[r].idx
                  /\ \A i \in 1..Len(f) :
                        CountOfPair(r, i) =
                            IF f[i].failed THEN 0 ELSE Len(f[i].result.val)
                  /\ Unstamped(run[r].all_schedules) = RecordsOf(f)
            /\ CoreReturned(r) =>
                  /\ Len(f) = 2 * Len(run[r].stations)
                  /\ run[r].all_schedules # <<>> =>
                        table = Rows(run[r].all_schedules)

\* Two stations, the second failing in both directions, the first stored.
C4_Witness ==
    \E r \in Runs :
        /\ CoreReturned(r)
        /\ Len(run[r].stations) = 2
        /\ hist[r].fetched[3].failed /\ hist[r].fetched[4].failed
        /\ run[r].arrival_schedules_counts = <<1, 0>>
        /\ run[r].departure_schedules_counts = <<1, 0>>
        /\ Len(table) = 2

\* C5: when every fetch of a run yields zero records (an empty list or the
\* failure marker), neither clear_old_data nor insert_schedules is invoked
\* and the stored rows are those of before the run.
C5_EmptyRunLeavesTable ==
    \A r \in Runs :
        (/\ run[r].pc \notin {"idle", "schema", "fetch", "finished"}
         /\ hist[r].fetched # <<>>
         /\ \A i \in 1..Len(hist[r].fetched) :
               ~Truthy(hist[r].fetched[i].result)
               /\ hist[r].fetched[i].result.tag # "raise")
        => /\ CoreReturned(r)
           /\ hist[r].calls = {}
           /\ table = hist[r].pre

\* A run found nothing (one fetch failed, one came back empty) while the
\* table held an earlier snapshot, which is still there.
C5_Witness ==
    \E r \in Runs :
        /\ CoreReturned(r)
        /\ run[r].all_schedules = <<>>
        /\ \E i \in 1..Len(hist[r].fetched) : hist[r].fetched[i].failed
        /\ \E i \in 1..Len(hist[r].fetched) : ~hist[r].fetched[i].failed
        /\ hist[r].pre # <<>>
        /\ table = hist[r].pre

\* C6: a malformed upstream entry affects only itself; in particular an
\* entry whose timestamp cannot be parsed is stored with null timestamps and
\* never makes the persistence step fail on a constraint.
C6_NullTimestampIsStored ==
    \A r \in Runs :
        run[r].pc = "raised" => run[r].exc # <<"IntegrityError">>

\* The path <direction>s.<direction> of a decoded map is absent, or one of
\* its two levels has not the expected shape.
PathAbsentOrMalformed(data, direction) ==
    /\ data.t = "map"
    /\ \/ Plural(direction) \notin DOMAIN data.m
       \/ data.m[Plural(direction)].t # "map"
       \/ direction \notin DOMAIN data.m[Plural(direction)].m
       \/ data.m[Plural(direction)].m[direction].t # "arr"

Probed == probe.direction # "none" /\ probe.result # <<>>

\* C7: for a received and decoded response whose path is absent or
\* malformed, get_schedules returns an empty list (neither the failure
\* marker nor an exception).
C7_MalformedPathIsEmptyList ==
    (/\ Probed
     /\ probe.response.net = "ok"
     /\ PathAbsentOrMalformed(probe.response.data, probe.direction))
    => probe.result[1] = Returned(<<>>)

\* The status the data model derives from (canceled, delay_minutes).
StatusOf(canceled, delay_minutes) ==
    IF canceled = 1 THEN "Canceled"
    ELSE IF delay_minutes > 0 THEN "Delayed" ELSE "On Time"

\* C8: current_status of every normalized record is a function of its
\* canceled flag and its delay_minutes: Canceled iff canceled, else Delayed
\* iff delay_minutes > 0, else On Time.
C8_StatusFromCanceledAndMinutes ==
    (Probed /\ probe.result[1].tag = "ok") =>
        \A i \in 1..Len(probe.result[1].val) :
            LET rec == probe.result[1].val[i]
            IN  rec.current_status = StatusOf(rec.canceled, rec.delay_minutes)

\* C9: once overlapping runs have all finished (here: none of them with an
\* error), the table holds exactly the rows written by the insert
\* transaction that committed last -- no row of another run, and not empty.
C9_LastCommitWins ==
    (/\ \A r \in Runs : run[r].pc = "finished" /\ ~run[r].logged_error
     /\ snapshot # <<>>)
    => table = snapshot[1]

\* C10: no exception leaves an adapter; the HTTP adapter answers with a
\* status code (500 when the core raised), the timer adapter logs and
\* returns.
C10_NoExceptionEscapes ==
    \A r \in Runs :
        /\ ~run[r].escaped
        /\ run[r].pc = "finished" =>
              IF run[r].trigger = "http"
              THEN /\ run[r].status_code \in {200, 400, 500}
                   /\ run[r].logged_error <=> run[r].status_code = 500
              ELSE run[r].status_code = 0

\* An HTTP run answered 500 and a timer run returned after logging an
\* exception that was no database error.
C10_Witness ==
    /\ \E r \in Runs :
          /\ run[r].pc = "finished" /\ run[r].trigger = "http"
          /\ run[r].status_code = 500
    /\ \E r \in Runs :
          /\ run[r].pc = "raised" /\ run[r].trigger = "timer"
          /\ run[r].exc = <<"AttributeError">>

\* C11: when no station is resolvable the HTTP adapter answers 400 and the
\* timer adapter logs and returns; the core is not entered, nothing is
\* fetched and no database operation is made.
C11_NoStationNoRun ==
    \A r \in Runs :
        hist[r].no_station =>
            /\ run[r].pc = "finished"
            /\ IF run[r].trigger = "http"
               THEN run[r].status_code = 400
               ELSE run[r].status_code = 0 /\ run[r].logged_error
            /\ hist[r].fetched = <<>>
            /\ hist[r].calls = {}

====
